---- MODULE Spec2Model ----
(***************************************************************************)
(* Perceptron City: the game state machine of the three drag-and-drop      *)
(* variants of the widget.                                                 *)
(*   "count"   - part_000: per-category counters, placed items get a uuid  *)
(*   "static"  - part_002 lines 1-529 (part_001 has the same handlers):    *)
(*               15 identified items, fixed weights 2/6/12, range [80,88]  *)
(*   "dynamic" - part_002 lines 531-1090: 15 identified items, weights     *)
(*               derived from three weather sliders, range [100,150]       *)
(* One React event handler is one action; React re-renders between two     *)
(* discrete events, so a handler always reads the state left by the        *)
(* previous one.  A handler is enabled when the element that carries it is *)
(* rendered (and, for a button, not disabled).                             *)
(***************************************************************************)
EXTENDS Integers, Sequences, FiniteSets, TLC

VARIABLES
    variant,          \* which component is mounted
    gameStatus,       \* useState<GameStatus>("intro")
    attemptsLeft,     \* useState(5) / useState(3)
    hasChecked,       \* useState(false); absent in "count" (stays FALSE)
    placedItems,      \* useState<PlacedItem[]>([])
    availableItems,   \* useState<PlacedItem[]>(...); absent in "count" (stays << >>)
    availableSolar,   \* useState(5), "count" only (0 elsewhere)
    availableWind,    \* useState(5), "count" only
    availableHydro,   \* useState(5), "count" only
    weather,          \* useState({sun, wind, rain}), "dynamic" only; slider units (weather.x * 100)
    lastEvent,        \* bookkeeping: the event handled last
    prev,             \* bookkeeping: gameStatus and attemptsLeft before that event
    failedCommits,    \* bookkeeping: commits out of range since the last start
    hist,             \* bookkeeping: the argument and the target of the last event,
                      \* and hasChecked before it
    twin,             \* a second component (the one of part_000) mounted beside the first
                      \* and given the same player actions; NoTwin where none is mounted
    inputs            \* solarInput / windInput / hydroInput of the slider component
                      \* (components/PerceptronCity.tsx), as slider positions in steps of
                      \* 0.5; NoInputs where a game component is mounted

vars == <<variant, gameStatus, attemptsLeft, hasChecked, placedItems, availableItems,
          availableSolar, availableWind, availableHydro, weather,
          lastEvent, prev, failedCommits, hist, twin, inputs>>

(***************************************************************************)
(* Bounds of the environment (the player), not of the program.             *)
(***************************************************************************)
\* The player stops a slider at one of MaxSlider + 1 evenly spaced positions
\* (the slider itself offers 0..100 in steps of 1).
MaxSlider == 2

SliderValues == {(100 * k) \div MaxSlider : k \in 0..MaxSlider}

\* The player moves the item shown first in a list: the first available item,
\* the first placed item; in "count" the first source tile in stock and the item
\* placed last.  (Any wider choice makes every ordering of the 15 items a state.)

(***************************************************************************)
(* Program constants.                                                      *)
(***************************************************************************)
Variants == {"count", "static", "dynamic"}
EnergyTypes == {"solar", "wind", "hydro"}
GameStatuses == {"intro", "playing", "won", "lost"}
WeatherKeys == {"sun", "wind", "rain"}

SOLAR_WEIGHT == 2
WIND_WEIGHT == 6
HYDRO_WEIGHT == 12
THRESHOLD_MIN == 80
THRESHOLD_MAX == 88
STATIC_ATTEMPTS == 5

NUM_ITEMS_PER_TYPE == 5
DYN_THRESHOLD_MIN == 100
DYN_THRESHOLD_MAX == 150
DYN_ATTEMPTS == 3

\* Energies of the dynamic variant are fractions with up to 3 decimals here:
\* the integer n stands for n / Scale.
Scale == 1000

\* dataTransfer.getData("itemId") of a drag that did not start on an item: ""
NoItemId == <<"", 0>>

(***************************************************************************)
(* Array helpers of the handlers.                                          *)
(***************************************************************************)
\* `${type}-${i}`
ItemId(type, i) == <<type, i>>

Item(type, i) == [id |-> ItemId(type, i), type |-> type]

\* mutant: the for loop runs two rounds too many
InitialItemsTwoMore(n) ==
    [k \in 1..(3 * (n + 2)) |->
        Item(<<"solar", "wind", "hydro">>[((k - 1) % 3) + 1], (k - 1) \div 3)]

\* the for loop of the useState initialiser and of handleReplay:
\* solar-0, wind-0, hydro-0, solar-1, ...
RECURSIVE InitialItems(_)
InitialItems(n) ==
    IF n = 0 THEN << >>
    ELSE InitialItems(n - 1)
           \o << Item("solar", n - 1), Item("wind", n - 1), Item("hydro", n - 1) >>

Ids(items) == {items[i].id : i \in 1..Len(items)}

\* items.some(i => i.id === id)
Some(items, id) == \E i \in 1..Len(items) : items[i].id = id

\* items.find(i => i.id === id), for an id that Some(items, id)
Find(items, id) ==
    items[CHOOSE i \in 1..Len(items) :
            items[i].id = id /\ \A j \in 1..(i - 1) : items[j].id # id]

\* mutant: the filter keeps the matching item instead of dropping it (=== for !==)
FilterOutInverted(items, id) == SelectSeq(items, LAMBDA it : it.id = id)

\* items.filter(i => i.id !== id)
FilterOut(items, id) == SelectSeq(items, LAMBDA it : it.id # id)

\* mutant: [item, ...items]
Append1AtFront(items, item) == <<item>> \o items

\* [...items, item]
Append1(items, item) == Append(items, item)

\* a move that appends to the destination and leaves the source as it is
MoveItemKeepsSource(source, destination, id) ==
    [source      |-> source,
     destination |-> Append1(destination, Find(source, id))]

\* the two writes of a move, for an id that Some(source, id):
\* setSource(source.filter(i => i.id !== id)); setDestination([...destination, item])
MoveItem(source, destination, id) ==
    [source      |-> FilterOut(source, id),
     destination |-> Append1(destination, Find(source, id))]

(***************************************************************************)
(* Weights and totals.                                                     *)
(***************************************************************************)
\* Number(x.toFixed(2)) of x = m / Scale >= 0: round to the nearest hundredth
ToFixed2(m) == ((m + 5) \div 10) * 10

\* mutant: every item yields 20 units on top of what the weather gives
RawWeightWithBase(k) == (weather[k] * Scale) \div NUM_ITEMS_PER_TYPE + 20 * Scale

\* getDynamicWeights: (weather.k * 100) / NUM_ITEMS_PER_TYPE, then toFixed(2)
RawWeight(k) == (weather[k] * Scale) \div NUM_ITEMS_PER_TYPE

getDynamicWeights ==
    [solar |-> ToFixed2(RawWeight("sun")),
     wind  |-> ToFixed2(RawWeight("wind")),
     hydro |-> ToFixed2(RawWeight("rain"))]

\* a hydro item that weighs one unit more
StaticWeightsHeavyHydro ==
    [solar |-> SOLAR_WEIGHT, wind |-> WIND_WEIGHT, hydro |-> HYDRO_WEIGHT + 1]

\* the weights of solar and wind exchanged
StaticWeightsSwapped == [solar |-> WIND_WEIGHT, wind |-> SOLAR_WEIGHT, hydro |-> HYDRO_WEIGHT]

StaticWeights == [solar |-> SOLAR_WEIGHT, wind |-> WIND_WEIGHT, hydro |-> HYDRO_WEIGHT]

\* placedItems.reduce((sum, item) => sum + weight of item.type, 0)
RECURSIVE Reduce(_, _)
Reduce(items, w) ==
    IF items = << >> THEN 0
    ELSE Reduce(SubSeq(items, 1, Len(items) - 1), w) + w[items[Len(items)].type]

\* totalEnergy of the static variants, in units
totalEnergyStatic == Reduce(placedItems, StaticWeights)

\* totalEnergy of the dynamic variant, in 1/Scale units
totalEnergyDynamic == Reduce(placedItems, getDynamicWeights)

\* mutant: the upper end of the range is exclusive (< for <=)
currentIsInRangeStaticStrict ==
    totalEnergyStatic >= THRESHOLD_MIN /\ totalEnergyStatic < THRESHOLD_MAX

\* totalEnergy >= THRESHOLD_MIN && totalEnergy <= THRESHOLD_MAX
currentIsInRangeStatic == totalEnergyStatic >= THRESHOLD_MIN /\ totalEnergyStatic <= THRESHOLD_MAX

currentIsInRangeDynamic ==
    /\ totalEnergyDynamic >= DYN_THRESHOLD_MIN * Scale
    /\ totalEnergyDynamic <= DYN_THRESHOLD_MAX * Scale

(***************************************************************************)
(* JavaScript numbers.  Every number the dynamic variant computes is an    *)
(* IEEE-754 double between 0 and 300 that is a multiple of 2^-59, so a     *)
(* double x is held as the natural number x * 2^59, written in five limbs  *)
(* of 15 bits, least significant first.  Each operation computes the exact *)
(* result and rounds it to 53 significant bits, ties to even.              *)
(***************************************************************************)
Limb == 32768

\* the integer n (0 <= n < 65536) as a double: n * 2^59 = (n * 2^14) * 2^45
FromInt(n) == <<0, 0, 0, (n * 16384) % Limb, (n * 16384) \div Limb>>

\* exact x + y
BigAdd(x, y) ==
    LET s1 == x[1] + y[1]
        s2 == x[2] + y[2] + s1 \div Limb
        s3 == x[3] + y[3] + s2 \div Limb
        s4 == x[4] + y[4] + s3 \div Limb
        s5 == x[5] + y[5] + s4 \div Limb
    IN  <<s1 % Limb, s2 % Limb, s3 % Limb, s4 % Limb, s5>>

\* exact x * c for a small natural c
BigMul(x, c) ==
    LET p1 == x[1] * c
        p2 == x[2] * c + p1 \div Limb
        p3 == x[3] * c + p2 \div Limb
        p4 == x[4] * c + p3 \div Limb
        p5 == x[5] * c + p4 \div Limb
    IN  <<p1 % Limb, p2 % Limb, p3 % Limb, p4 % Limb, p5>>

\* x divided by a small natural c: the quotient and the remainder
BigDiv(x, c) ==
    LET t5 == x[5]
        t4 == (t5 % c) * Limb + x[4]
        t3 == (t4 % c) * Limb + x[3]
        t2 == (t3 % c) * Limb + x[2]
        t1 == (t2 % c) * Limb + x[1]
    IN  [q |-> <<t1 \div c, t2 \div c, t3 \div c, t4 \div c, t5 \div c>>, r |-> t1 % c]

\* x < y
BigLess(x, y) ==
    \E i \in 1..5 : x[i] < y[i] /\ \A j \in (i + 1)..5 : x[j] = y[j]

\* the number of significant bits of x
BitLen(x) ==
    IF \A i \in 1..5 : x[i] = 0 THEN 0
    ELSE LET top == CHOOSE i \in 1..5 : x[i] # 0 /\ \A j \in (i + 1)..5 : x[j] = 0
             bits == CHOOSE b \in 1..30 : 2^(b - 1) <= x[top] /\ x[top] < 2^b
         IN  15 * (top - 1) + bits

\* round-to-nearest-even of the exact value x + rest to 53 significant bits;
\* rest is what lies below the last limb: 0 nothing, 1 less than half a unit,
\* 2 exactly half, 3 more than half
RoundDouble(x, rest) ==
    LET d == BitLen(x) - 53 IN
    IF d <= 0
      THEN IF rest = 3 \/ (rest = 2 /\ x[1] % 2 = 1) THEN BigAdd(x, <<1, 0, 0, 0, 0>>) ELSE x
      ELSE LET low  == x[1] % (2^d)
               half == 2^(d - 1)
               odd  == IF d = 15 THEN x[2] % 2 = 1 ELSE (x[1] \div (2^d)) % 2 = 1
               up   == low > half \/ (low = half /\ (rest # 0 \/ odd))
               cut  == <<x[1] - low, x[2], x[3], x[4], x[5]>>
           IN  IF up THEN BigAdd(cut, <<2^d, 0, 0, 0, 0>>) ELSE cut

\* what a remainder r of a division by c leaves below the quotient
Rest(r, c) == IF r = 0 THEN 0 ELSE IF 2 * r < c THEN 1 ELSE IF 2 * r = c THEN 2 ELSE 3

\* the JavaScript operators x / c, x * c and x + y on doubles
DoubleDiv(x, c) == LET d == BigDiv(x, c) IN RoundDouble(d.q, Rest(d.r, c))
DoubleMul(x, c) == RoundDouble(BigMul(x, c), 0)
DoubleAdd(x, y) == RoundDouble(BigAdd(x, y), 0)

\* x.toFixed(0) in place of x.toFixed(2): the nearest integer, in hundredths
toFixed0(x) ==
    LET p == BigAdd(x, <<0, 0, 0, 8192, 0>>)
    IN  100 * ((p[5] * Limb + p[4]) \div 16384)

\* x.toFixed(2): the integer n for which n / 100 is nearest to x, the larger n on
\* a tie, that is floor((x * 100 * 2^59 + 2^58) / 2^59); the string is n / 100
toFixed2(x) ==
    LET p == BigAdd(BigMul(x, 100), <<0, 0, 0, 8192, 0>>)
    IN  (p[5] * Limb + p[4]) \div 16384

\* Number(string) of the decimal n / 100: the double nearest to it
NumberOfHundredths(n) == DoubleDiv(FromInt(n), 100)

\* weather[key] as the component holds it: value / 100 of the slider value
weatherDouble(key) == DoubleDiv(FromInt(weather[key]), 100)

\* (weather.sun * 100) / NUM_ITEMS_PER_TYPE, before it is rounded
RawWeightDouble(key) == DoubleDiv(DoubleMul(weatherDouble(key), 100), NUM_ITEMS_PER_TYPE)

\* getDynamicWeights on doubles: Number(weight.toFixed(2)) per type
getDynamicWeightsDouble ==
    [solar |-> NumberOfHundredths(toFixed2(RawWeightDouble("sun"))),
     wind  |-> NumberOfHundredths(toFixed2(RawWeightDouble("wind"))),
     hydro |-> NumberOfHundredths(toFixed2(RawWeightDouble("rain")))]

\* placedItems.reduce((sum, item) => sum + weight of item.type, 0) on doubles,
\* added in the order of placement
RECURSIVE ReduceDouble(_, _)
ReduceDouble(items, w) ==
    IF items = << >> THEN FromInt(0)
    ELSE DoubleAdd(ReduceDouble(SubSeq(items, 1, Len(items) - 1), w),
                   w[items[Len(items)].type])

\* totalEnergy of the dynamic variant as the double the component compares
totalEnergyDouble == ReduceDouble(placedItems, getDynamicWeightsDouble)

\* totalEnergy >= THRESHOLD_MIN && totalEnergy <= THRESHOLD_MAX on doubles
currentIsInRangeDouble ==
    /\ ~BigLess(totalEnergyDouble, FromInt(DYN_THRESHOLD_MIN))
    /\ ~BigLess(FromInt(DYN_THRESHOLD_MAX), totalEnergyDouble)

\* what the component computes for the mounted variant
currentIsInRange ==
    IF variant = "dynamic" THEN currentIsInRangeDynamic ELSE currentIsInRangeStatic

\* const isInRange = hasChecked && totalEnergy >= THRESHOLD_MIN && totalEnergy <= THRESHOLD_MAX
isInRange == hasChecked /\ currentIsInRange

MaxAttempts == IF variant = "dynamic" THEN DYN_ATTEMPTS ELSE STATIC_ATTEMPTS

(***************************************************************************)
(* What the player can reach on the screen.                                *)
(***************************************************************************)
PickableAvailable ==
    IF availableItems = << >> THEN {} ELSE {availableItems[1].id}

PickablePlaced ==
    IF placedItems = << >> THEN {} ELSE {placedItems[1].id}

\* "count": the player takes back the item placed last
PickablePlacedCount ==
    IF placedItems = << >> THEN {} ELSE {placedItems[Len(placedItems)].id}

\* no second component is mounted
NoTwin == << >>

\* no slider component is mounted
NoInputs == << >>

\* the state right after the component is constructed
InitialWeather == [sun |-> 0, wind |-> 0, rain |-> 0]

Constructed(v) ==
    /\ variant = v
    /\ gameStatus = "intro"
    /\ attemptsLeft = (IF v = "dynamic" THEN DYN_ATTEMPTS ELSE STATIC_ATTEMPTS)
    /\ hasChecked = FALSE
    /\ placedItems = << >>
    /\ availableItems = (IF v = "count" THEN << >> ELSE InitialItems(NUM_ITEMS_PER_TYPE))
    /\ availableSolar = (IF v = "count" THEN 5 ELSE 0)
    /\ availableWind = (IF v = "count" THEN 5 ELSE 0)
    /\ availableHydro = (IF v = "count" THEN 5 ELSE 0)
    /\ weather = InitialWeather

Init ==
    /\ \E v \in Variants : Constructed(v)
    /\ lastEvent = "mount"
    /\ prev = [gameStatus |-> "intro", attemptsLeft |-> attemptsLeft]
    /\ failedCommits = 0
    /\ hist = [arg |-> NoItemId, target |-> "", hasChecked |-> FALSE]
    /\ twin = NoTwin
    /\ inputs = NoInputs

(***************************************************************************)
(* Variant "count" (part_000).                                             *)
(***************************************************************************)
CountVars == <<availableSolar, availableWind, availableHydro>>

\* crypto.randomUUID(): an id no placed item carries
FreshUuid ==
    <<"uuid", CHOOSE n \in 0..Len(placedItems) :
                 /\ <<"uuid", n>> \notin Ids(placedItems)
                 /\ \A m \in 0..(n - 1) : <<"uuid", m>> \in Ids(placedItems)>>

handleStartGameCount ==
    /\ gameStatus' = "playing"
    /\ UNCHANGED <<attemptsLeft, hasChecked, placedItems, availableItems, CountVars, weather>>

\* mutant: sign slip, a failed check gives an attempt back
handleCheckEnergyCountPlus ==
    /\ IF currentIsInRangeStatic
         THEN /\ gameStatus' = "won"
              /\ UNCHANGED attemptsLeft
         ELSE LET newAttempts == attemptsLeft + 1 IN
              /\ attemptsLeft' = newAttempts
              /\ gameStatus' = (IF newAttempts = 0 THEN "lost" ELSE gameStatus)
    /\ UNCHANGED <<hasChecked, placedItems, availableItems, CountVars, weather>>

\* mutant: off by one, the game is lost with one attempt still left
handleCheckEnergyCountEarlyLost ==
    /\ IF currentIsInRangeStatic
         THEN /\ gameStatus' = "won"
              /\ UNCHANGED attemptsLeft
         ELSE LET newAttempts == attemptsLeft - 1 IN
              /\ attemptsLeft' = newAttempts
              /\ gameStatus' = (IF newAttempts <= 1 THEN "lost" ELSE gameStatus)
    /\ UNCHANGED <<hasChecked, placedItems, availableItems, CountVars, weather>>

handleCheckEnergyCount ==
    /\ IF currentIsInRangeStatic
         THEN /\ gameStatus' = "won"
              /\ UNCHANGED attemptsLeft
         ELSE LET newAttempts == attemptsLeft - 1 IN
              /\ attemptsLeft' = newAttempts
              /\ gameStatus' = (IF newAttempts = 0 THEN "lost" ELSE gameStatus)
    /\ UNCHANGED <<hasChecked, placedItems, availableItems, CountVars, weather>>

\* handleReplayCount without setPlacedItems([])
handleReplayCountKeepsPlaced ==
    /\ gameStatus' = "intro"
    /\ attemptsLeft' = 5
    /\ availableSolar' = 5
    /\ availableWind' = 5
    /\ availableHydro' = 5
    /\ UNCHANGED <<hasChecked, placedItems, availableItems, weather>>

handleReplayCount ==
    /\ gameStatus' = "intro"
    /\ attemptsLeft' = 5
    /\ placedItems' = << >>
    /\ availableSolar' = 5
    /\ availableWind' = 5
    /\ availableHydro' = 5
    /\ UNCHANGED <<hasChecked, availableItems, weather>>

\* mutant: the stock test lets an empty tile through
handleDropCountNoStockCheck(type) ==
    /\ IF type = "solar" /\ availableSolar >= 0
         THEN /\ availableSolar' = availableSolar - 1
              /\ placedItems' = Append1(placedItems, [id |-> FreshUuid, type |-> type])
              /\ UNCHANGED <<availableWind, availableHydro>>
         ELSE IF type = "wind" /\ availableWind >= 0
         THEN /\ availableWind' = availableWind - 1
              /\ placedItems' = Append1(placedItems, [id |-> FreshUuid, type |-> type])
              /\ UNCHANGED <<availableSolar, availableHydro>>
         ELSE IF type = "hydro" /\ availableHydro >= 0
         THEN /\ availableHydro' = availableHydro - 1
              /\ placedItems' = Append1(placedItems, [id |-> FreshUuid, type |-> type])
              /\ UNCHANGED <<availableSolar, availableWind>>
         ELSE UNCHANGED <<placedItems, CountVars>>
    /\ UNCHANGED <<gameStatus, attemptsLeft, hasChecked, availableItems, weather>>

handleDropCount(type) ==
    /\ IF type = "solar" /\ availableSolar > 0
         THEN /\ availableSolar' = availableSolar - 1
              /\ placedItems' = Append1(placedItems, [id |-> FreshUuid, type |-> type])
              /\ UNCHANGED <<availableWind, availableHydro>>
         ELSE IF type = "wind" /\ availableWind > 0
         THEN /\ availableWind' = availableWind - 1
              /\ placedItems' = Append1(placedItems, [id |-> FreshUuid, type |-> type])
              /\ UNCHANGED <<availableSolar, availableHydro>>
         ELSE IF type = "hydro" /\ availableHydro > 0
         THEN /\ availableHydro' = availableHydro - 1
              /\ placedItems' = Append1(placedItems, [id |-> FreshUuid, type |-> type])
              /\ UNCHANGED <<availableSolar, availableWind>>
         ELSE UNCHANGED <<placedItems, CountVars>>
    /\ UNCHANGED <<gameStatus, attemptsLeft, hasChecked, availableItems, weather>>

handleRemoveItemCount(id) ==
    /\ IF Some(placedItems, id)
         THEN LET item == Find(placedItems, id) IN
              /\ availableSolar' = (IF item.type = "solar" THEN availableSolar + 1 ELSE availableSolar)
              /\ availableWind' = (IF item.type = "wind" THEN availableWind + 1 ELSE availableWind)
              /\ availableHydro' = (IF item.type = "hydro" THEN availableHydro + 1 ELSE availableHydro)
              /\ placedItems' = FilterOut(placedItems, id)
         ELSE UNCHANGED <<placedItems, CountVars>>
    /\ UNCHANGED <<gameStatus, attemptsLeft, hasChecked, availableItems, weather>>

(***************************************************************************)
(* The component of part_000 as a value: its state is a record c of its    *)
(* useState cells, and a handler gives the record after its setState calls.*)
(***************************************************************************)
MountedTwin ==
    [gameStatus     |-> "intro",
     attemptsLeft   |-> 5,
     availableSolar |-> 5,
     availableWind  |-> 5,
     availableHydro |-> 5,
     placedItems    |-> << >>]

\* crypto.randomUUID(): an id no placed item of c carries
FreshUuidTwin(c) ==
    <<"uuid", CHOOSE n \in 0..Len(c.placedItems) :
                 /\ <<"uuid", n>> \notin Ids(c.placedItems)
                 /\ \A m \in 0..(n - 1) : <<"uuid", m>> \in Ids(c.placedItems)>>

totalEnergyTwin(c) == Reduce(c.placedItems, StaticWeights)

isInRangeTwin(c) == totalEnergyTwin(c) >= THRESHOLD_MIN /\ totalEnergyTwin(c) <= THRESHOLD_MAX

handleStartGameTwin(c) == [c EXCEPT !.gameStatus = "playing"]

handleCheckEnergyTwin(c) ==
    IF isInRangeTwin(c)
    THEN [c EXCEPT !.gameStatus = "won"]
    ELSE LET newAttempts == c.attemptsLeft - 1 IN
         [c EXCEPT !.attemptsLeft = newAttempts,
                   !.gameStatus = (IF newAttempts = 0 THEN "lost" ELSE c.gameStatus)]

\* mutant: a replay gives three attempts
handleReplayTwinThreeAttempts(c) ==
    [gameStatus     |-> "intro",
     attemptsLeft   |-> 3,
     availableSolar |-> 5,
     availableWind  |-> 5,
     availableHydro |-> 5,
     placedItems    |-> << >>]

handleReplayTwin(c) ==
    [gameStatus     |-> "intro",
     attemptsLeft   |-> 5,
     availableSolar |-> 5,
     availableWind  |-> 5,
     availableHydro |-> 5,
     placedItems    |-> << >>]

handleDropTwin(c, type) ==
    IF type = "solar" /\ c.availableSolar > 0
    THEN [c EXCEPT !.availableSolar = c.availableSolar - 1,
                   !.placedItems = Append1(c.placedItems, [id |-> FreshUuidTwin(c), type |-> type])]
    ELSE IF type = "wind" /\ c.availableWind > 0
    THEN [c EXCEPT !.availableWind = c.availableWind - 1,
                   !.placedItems = Append1(c.placedItems, [id |-> FreshUuidTwin(c), type |-> type])]
    ELSE IF type = "hydro" /\ c.availableHydro > 0
    THEN [c EXCEPT !.availableHydro = c.availableHydro - 1,
                   !.placedItems = Append1(c.placedItems, [id |-> FreshUuidTwin(c), type |-> type])]
    ELSE c

handleRemoveItemTwin(c, id) ==
    IF Some(c.placedItems, id)
    THEN LET item == Find(c.placedItems, id) IN
         [c EXCEPT !.availableSolar = (IF item.type = "solar" THEN c.availableSolar + 1 ELSE c.availableSolar),
                   !.availableWind = (IF item.type = "wind" THEN c.availableWind + 1 ELSE c.availableWind),
                   !.availableHydro = (IF item.type = "hydro" THEN c.availableHydro + 1 ELSE c.availableHydro),
                   !.placedItems = FilterOut(c.placedItems, id)]
    ELSE c

(***************************************************************************)
(* Variant "static" (part_002 lines 1-529; part_001 is the same code).     *)
(***************************************************************************)
handleStartGameStatic ==
    /\ gameStatus' = "playing"
    /\ hasChecked' = FALSE
    /\ UNCHANGED <<attemptsLeft, placedItems, availableItems, CountVars, weather>>

\* mutant: a failed check costs no attempt
handleCheckEnergyStaticFreeCheck ==
    /\ hasChecked' = TRUE
    /\ IF currentIsInRangeStatic
         THEN gameStatus' = "won"
         ELSE gameStatus' = (IF attemptsLeft = 0 THEN "lost" ELSE gameStatus)
    /\ UNCHANGED <<attemptsLeft, placedItems, availableItems, CountVars, weather>>

\* mutant: the lost test reads the stale attemptsLeft instead of newAttempts
handleCheckEnergyStaticStale ==
    /\ hasChecked' = TRUE
    /\ IF currentIsInRangeStatic
         THEN /\ gameStatus' = "won"
              /\ UNCHANGED attemptsLeft
         ELSE LET newAttempts == attemptsLeft - 1 IN
              /\ attemptsLeft' = newAttempts
              /\ gameStatus' = (IF attemptsLeft = 0 THEN "lost" ELSE gameStatus)
    /\ UNCHANGED <<placedItems, availableItems, CountVars, weather>>

handleCheckEnergyStatic ==
    /\ hasChecked' = TRUE
    /\ IF currentIsInRangeStatic
         THEN /\ gameStatus' = "won"
              /\ UNCHANGED attemptsLeft
         ELSE LET newAttempts == attemptsLeft - 1 IN
              /\ attemptsLeft' = newAttempts
              /\ gameStatus' = (IF newAttempts = 0 THEN "lost" ELSE gameStatus)
    /\ UNCHANGED <<placedItems, availableItems, CountVars, weather>>

\* mutant: replay skips the intro screen
handleReplayStaticToPlaying ==
    /\ gameStatus' = "playing"
    /\ attemptsLeft' = 5
    /\ placedItems' = << >>
    /\ hasChecked' = FALSE
    /\ availableItems' = InitialItems(5)
    /\ UNCHANGED <<CountVars, weather>>

\* mutant: handleReplay without setHasChecked(false)
handleReplayStaticKeepsChecked ==
    /\ gameStatus' = "intro"
    /\ attemptsLeft' = 5
    /\ placedItems' = << >>
    /\ availableItems' = InitialItems(5)
    /\ UNCHANGED <<hasChecked, CountVars, weather>>

handleReplayStatic ==
    /\ gameStatus' = "intro"
    /\ attemptsLeft' = 5
    /\ placedItems' = << >>
    /\ hasChecked' = FALSE
    /\ availableItems' = InitialItems(5)
    /\ UNCHANGED <<CountVars, weather>>

\* handleDrop without setHasChecked(false)
handleDropStaticKeepsChecked(itemId) ==
    /\ IF Some(availableItems, itemId)
         THEN LET moved == MoveItem(availableItems, placedItems, itemId) IN
              /\ availableItems' = moved.source
              /\ placedItems' = moved.destination
         ELSE UNCHANGED <<availableItems, placedItems>>
    /\ UNCHANGED <<hasChecked, gameStatus, attemptsLeft, CountVars, weather>>

handleDropStatic(itemId) ==
    /\ IF Some(availableItems, itemId)
         THEN LET moved == MoveItem(availableItems, placedItems, itemId) IN
              /\ availableItems' = moved.source
              /\ placedItems' = moved.destination
              /\ hasChecked' = FALSE
         ELSE UNCHANGED <<availableItems, placedItems, hasChecked>>
    /\ UNCHANGED <<gameStatus, attemptsLeft, CountVars, weather>>

\* handleRemoveItem with setHasChecked(false) outside the if (item) block
handleRemoveItemStaticAlwaysResets(id) ==
    /\ IF Some(placedItems, id)
         THEN LET moved == MoveItem(placedItems, availableItems, id) IN
              /\ placedItems' = moved.source
              /\ availableItems' = moved.destination
         ELSE UNCHANGED <<availableItems, placedItems>>
    /\ hasChecked' = FALSE
    /\ UNCHANGED <<gameStatus, attemptsLeft, CountVars, weather>>

handleRemoveItemStatic(id) ==
    /\ IF Some(placedItems, id)
         THEN LET moved == MoveItem(placedItems, availableItems, id) IN
              /\ placedItems' = moved.source
              /\ availableItems' = moved.destination
              /\ hasChecked' = FALSE
         ELSE UNCHANGED <<availableItems, placedItems, hasChecked>>
    /\ UNCHANGED <<gameStatus, attemptsLeft, CountVars, weather>>

(***************************************************************************)
(* Variant "dynamic" (part_002 lines 531-1090).                            *)
(***************************************************************************)
handleStartGameDynamic ==
    /\ gameStatus' = "playing"
    /\ hasChecked' = FALSE
    /\ UNCHANGED <<attemptsLeft, placedItems, availableItems, CountVars, weather>>

\* mutant: a failed check on the last attempt is free
handleCheckEnergyDynamicLastAttemptFree ==
    /\ hasChecked' = TRUE
    /\ IF currentIsInRangeDynamic
         THEN /\ gameStatus' = "won"
              /\ UNCHANGED attemptsLeft
         ELSE LET newAttempts == IF attemptsLeft > 1 THEN attemptsLeft - 1 ELSE attemptsLeft IN
              /\ attemptsLeft' = newAttempts
              /\ gameStatus' = (IF newAttempts = 0 THEN "lost" ELSE gameStatus)
    /\ UNCHANGED <<placedItems, availableItems, CountVars, weather>>

\* mutant: the verdict forgets the upper end of the range
handleCheckEnergyDynamicNoUpperEnd ==
    /\ hasChecked' = TRUE
    /\ IF totalEnergyDynamic >= DYN_THRESHOLD_MIN * Scale
         THEN /\ gameStatus' = "won"
              /\ UNCHANGED attemptsLeft
         ELSE LET newAttempts == attemptsLeft - 1 IN
              /\ attemptsLeft' = newAttempts
              /\ gameStatus' = (IF newAttempts = 0 THEN "lost" ELSE gameStatus)
    /\ UNCHANGED <<placedItems, availableItems, CountVars, weather>>

\* mutant: the attempt is consumed before the range is looked at
handleCheckEnergyDynamicDecrementFirst ==
    /\ hasChecked' = TRUE
    /\ attemptsLeft' = attemptsLeft - 1
    /\ gameStatus' = (IF currentIsInRangeDynamic THEN "won"
                      ELSE IF attemptsLeft - 1 = 0 THEN "lost" ELSE gameStatus)
    /\ UNCHANGED <<placedItems, availableItems, CountVars, weather>>

handleCheckEnergyDynamic ==
    /\ hasChecked' = TRUE
    /\ IF currentIsInRangeDynamic
         THEN /\ gameStatus' = "won"
              /\ UNCHANGED attemptsLeft
         ELSE LET newAttempts == attemptsLeft - 1 IN
              /\ attemptsLeft' = newAttempts
              /\ gameStatus' = (IF newAttempts = 0 THEN "lost" ELSE gameStatus)
    /\ UNCHANGED <<placedItems, availableItems, CountVars, weather>>

\* handleCheckEnergy of the dynamic variant with the verdict taken on doubles, as
\* the component takes it for any slider value; handleCheckEnergyDynamic takes it
\* in exact arithmetic, which gives the same verdict on the slider stops of Spec
handleCheckEnergyDouble ==
    /\ hasChecked' = TRUE
    /\ IF currentIsInRangeDouble
         THEN /\ gameStatus' = "won"
              /\ UNCHANGED attemptsLeft
         ELSE LET newAttempts == attemptsLeft - 1 IN
              /\ attemptsLeft' = newAttempts
              /\ gameStatus' = (IF newAttempts = 0 THEN "lost" ELSE gameStatus)
    /\ UNCHANGED <<placedItems, availableItems, CountVars, weather>>

\* mutant: replay restores the 5 attempts of the static variants
handleReplayDynamicFiveAttempts ==
    /\ gameStatus' = "intro"
    /\ attemptsLeft' = 5
    /\ placedItems' = << >>
    /\ hasChecked' = FALSE
    /\ weather' = [sun |-> 0, wind |-> 0, rain |-> 0]
    /\ availableItems' = InitialItems(NUM_ITEMS_PER_TYPE)
    /\ UNCHANGED CountVars

\* mutant: replay forgets the weather sliders
handleReplayDynamicKeepsWeather ==
    /\ gameStatus' = "intro"
    /\ attemptsLeft' = 3
    /\ placedItems' = << >>
    /\ hasChecked' = FALSE
    /\ availableItems' = InitialItems(NUM_ITEMS_PER_TYPE)
    /\ UNCHANGED <<CountVars, weather>>

handleReplayDynamic ==
    /\ gameStatus' = "intro"
    /\ attemptsLeft' = 3
    /\ placedItems' = << >>
    /\ hasChecked' = FALSE
    /\ weather' = [sun |-> 0, wind |-> 0, rain |-> 0]
    /\ availableItems' = InitialItems(NUM_ITEMS_PER_TYPE)
    /\ UNCHANGED CountVars

handleDropDynamic(itemId, targetContainer) ==
    /\ IF Some(availableItems, itemId) \/ Some(placedItems, itemId)
         THEN /\ IF targetContainer = "powerGrid" /\ Some(availableItems, itemId)
                   THEN LET moved == MoveItem(availableItems, placedItems, itemId) IN
                        /\ availableItems' = moved.source
                        /\ placedItems' = moved.destination
                   ELSE IF targetContainer = "available" /\ Some(placedItems, itemId)
                   THEN LET moved == MoveItem(placedItems, availableItems, itemId) IN
                        /\ placedItems' = moved.source
                        /\ availableItems' = moved.destination
                   ELSE UNCHANGED <<availableItems, placedItems>>
              /\ hasChecked' = FALSE
         ELSE UNCHANGED <<availableItems, placedItems, hasChecked>>
    /\ UNCHANGED <<gameStatus, attemptsLeft, CountVars, weather>>

\* mutant: a click on an available item leaves the verdict on the screen
handleAddItemKeepsChecked(id) ==
    /\ IF Some(availableItems, id)
         THEN LET moved == MoveItem(availableItems, placedItems, id) IN
              /\ availableItems' = moved.source
              /\ placedItems' = moved.destination
         ELSE UNCHANGED <<availableItems, placedItems>>
    /\ UNCHANGED <<hasChecked, gameStatus, attemptsLeft, CountVars, weather>>

handleAddItem(id) ==
    /\ IF Some(availableItems, id)
         THEN LET moved == MoveItem(availableItems, placedItems, id) IN
              /\ availableItems' = moved.source
              /\ placedItems' = moved.destination
              /\ hasChecked' = FALSE
         ELSE UNCHANGED <<availableItems, placedItems, hasChecked>>
    /\ UNCHANGED <<gameStatus, attemptsLeft, CountVars, weather>>

handleRemoveItemDynamic(id) ==
    /\ IF Some(placedItems, id)
         THEN LET moved == MoveItem(placedItems, availableItems, id) IN
              /\ placedItems' = moved.source
              /\ availableItems' = moved.destination
              /\ hasChecked' = FALSE
         ELSE UNCHANGED <<availableItems, placedItems, hasChecked>>
    /\ UNCHANGED <<gameStatus, attemptsLeft, CountVars, weather>>

\* mutant: one slider drives all three intensities
handleWeatherChangeAllKeys(type, value) ==
    /\ weather' = [k \in WeatherKeys |-> value]
    /\ hasChecked' = FALSE
    /\ UNCHANGED <<gameStatus, attemptsLeft, placedItems, availableItems, CountVars>>

\* mutant: a weather change starts a new round of attempts
handleWeatherChangeResetsAttempts(type, value) ==
    /\ weather' = [weather EXCEPT ![type] = value]
    /\ hasChecked' = FALSE
    /\ attemptsLeft' = 3
    /\ UNCHANGED <<gameStatus, placedItems, availableItems, CountVars>>

\* setWeather(prev => ({...prev, [type]: value / 100})); weather is kept in slider units
handleWeatherChange(type, value) ==
    /\ weather' = [weather EXCEPT ![type] = value]
    /\ hasChecked' = FALSE
    /\ UNCHANGED <<gameStatus, attemptsLeft, placedItems, availableItems, CountVars>>

(***************************************************************************)
(* Events: a handler runs when the element that carries it is on screen.   *)
(***************************************************************************)
\* bookkeeping common to all events
Note(event) ==
    /\ lastEvent' = event
    /\ prev' = [gameStatus |-> gameStatus, attemptsLeft |-> attemptsLeft]
    /\ UNCHANGED <<variant, twin, inputs>>

\* bookkeeping of the argument an event carries (an item id or, in "count", an
\* energy type written <<type, 0>>) and of the drop target
Hist(arg, target) ==
    hist' = [arg |-> arg, target |-> target, hasChecked |-> hasChecked]

\* a playing screen that stays up after the game is won
PlayingScreenAlsoWon == gameStatus \in {"playing", "won"}

\* {gameStatus === "playing" && (...)}: the playing screen with the weather
\* card, the two item areas and the check button
PlayingScreen == gameStatus = "playing"

\* a Check Energy Level button that is never disabled
CheckButtonAlwaysEnabled == TRUE

\* the Check Energy Level button: disabled={placedItems.length === 0}
CheckButtonEnabled == Len(placedItems) # 0

\* source tiles in the order they are rendered
TypeOrder == <<"solar", "wind", "hydro">>

AvailableCount(type) ==
    IF type = "solar" THEN availableSolar
    ELSE IF type = "wind" THEN availableWind ELSE availableHydro

\* "count": the first source tile that is draggable (count > 0)
PickableTypes ==
    {TypeOrder[i] : i \in {j \in 1..3 :
        /\ AvailableCount(TypeOrder[j]) > 0
        /\ \A k \in 1..(j - 1) : AvailableCount(TypeOrder[k]) = 0}}

\* a tile that is out of stock, or a drag that carries no energyType ("")
DeadTypes == {t \in EnergyTypes : AvailableCount(t) = 0} \cup {""}

Start ==
    /\ gameStatus = "intro"
    /\ CASE variant = "count"   -> handleStartGameCount
         [] variant = "static"  -> handleStartGameStatic
         [] variant = "dynamic" -> handleStartGameDynamic
    /\ Note("start")
    /\ Hist(NoItemId, "")
    /\ failedCommits' = 0

Commit ==
    /\ PlayingScreen
    /\ CheckButtonEnabled
    /\ CASE variant = "count"   -> handleCheckEnergyCount
         [] variant = "static"  -> handleCheckEnergyStatic
         [] variant = "dynamic" -> handleCheckEnergyDynamic
    /\ Note("commit")
    /\ Hist(NoItemId, "")
    /\ failedCommits' = (IF currentIsInRange THEN failedCommits ELSE failedCommits + 1)

\* the player tries to check while the button is disabled or not on the screen:
\* no handler runs
CommitDisabled ==
    /\ ~(PlayingScreen /\ CheckButtonEnabled)
    /\ UNCHANGED <<gameStatus, attemptsLeft, hasChecked, placedItems, availableItems,
                   CountVars, weather>>
    /\ Note("commitDisabled")
    /\ Hist(NoItemId, "")
    /\ UNCHANGED failedCommits

Replay ==
    /\ gameStatus \in {"won", "lost"}
    /\ CASE variant = "count"   -> handleReplayCount
         [] variant = "static"  -> handleReplayStatic
         [] variant = "dynamic" -> handleReplayDynamic
    /\ Note("replay")
    /\ Hist(NoItemId, "")
    /\ UNCHANGED failedCommits

\* a drop on the power grid
MoveToGrid ==
    /\ PlayingScreen
    /\ CASE variant = "count" ->
              \E type \in PickableTypes \cup DeadTypes :
                  handleDropCount(type) /\ Hist(<<type, 0>>, "powerGrid")
         [] variant = "static" ->
              \E itemId \in PickableAvailable \cup {NoItemId} :
                  handleDropStatic(itemId) /\ Hist(itemId, "powerGrid")
         [] variant = "dynamic" ->
              \E itemId \in PickableAvailable \cup PickablePlaced \cup {NoItemId} :
                  handleDropDynamic(itemId, "powerGrid") /\ Hist(itemId, "powerGrid")
    /\ Note("toGrid")
    /\ UNCHANGED failedCommits

\* a click on an available item ("dynamic" only)
ClickAdd ==
    /\ PlayingScreen
    /\ variant = "dynamic"
    /\ \E id \in PickableAvailable \cup {NoItemId} :
          handleAddItem(id) /\ Hist(id, "click")
    /\ Note("toGrid")
    /\ UNCHANGED failedCommits

\* a click on a placed item, or ("dynamic") a drop on the available area
MoveToAvailable ==
    /\ PlayingScreen
    /\ CASE variant = "count" ->
              \E id \in PickablePlacedCount :
                  handleRemoveItemCount(id) /\ Hist(id, "click")
         [] variant = "static" ->
              \E id \in PickablePlaced \cup {NoItemId} :
                  handleRemoveItemStatic(id) /\ Hist(id, "click")
         [] variant = "dynamic" ->
              \/ \E id \in PickablePlaced \cup {NoItemId} :
                    handleRemoveItemDynamic(id) /\ Hist(id, "click")
              \/ \E itemId \in PickableAvailable \cup PickablePlaced \cup {NoItemId} :
                    handleDropDynamic(itemId, "available") /\ Hist(itemId, "available")
    /\ Note("toAvailable")
    /\ UNCHANGED failedCommits

\* the player tries to move an item while the playing screen, and with it both
\* item areas, is not rendered: no handler runs
MoveOffScreen ==
    /\ ~PlayingScreen
    /\ UNCHANGED <<gameStatus, attemptsLeft, hasChecked, placedItems, availableItems,
                   CountVars, weather>>
    /\ Note("moveOffScreen")
    /\ Hist(NoItemId, "")
    /\ UNCHANGED failedCommits

\* a weather slider is moved ("dynamic" only; the card is rendered while playing)
SetWeather ==
    /\ PlayingScreen
    /\ variant = "dynamic"
    /\ \E type \in WeatherKeys, value \in SliderValues : handleWeatherChange(type, value)
    /\ Note("setWeather")
    /\ Hist(NoItemId, "")
    /\ UNCHANGED failedCommits

Next ==
    \/ Start
    \/ Commit
    \/ CommitDisabled
    \/ Replay
    \/ MoveToGrid
    \/ ClickAdd
    \/ MoveToAvailable
    \/ MoveOffScreen
    \/ SetWeather

Spec == Init /\ [][Next]_vars

(***************************************************************************)
(* The calculation of the dynamic variant on doubles, for every slider     *)
(* value: the player starts, sets sliders, places items and commits once.  *)
(***************************************************************************)
\* <Slider max={100} step={1}>
SLIDER_MAX == 100

\* how many items the player places before the commit
MaxCalcPlaced == 6

CalcInit ==
    /\ Constructed("dynamic")
    /\ lastEvent = "mount"
    /\ prev = [gameStatus |-> "intro", attemptsLeft |-> attemptsLeft]
    /\ failedCommits = 0
    /\ hist = [arg |-> NoItemId, target |-> "", hasChecked |-> FALSE]
    /\ twin = NoTwin
    /\ inputs = NoInputs

CalcStart == Start

\* the sliders are set before the first item is placed; the rain slider is moved
\* only while the other two rest at 0, and they only while it rests at 0
CalcSetWeather ==
    /\ PlayingScreen
    /\ placedItems = << >>
    /\ \E type \in WeatherKeys, value \in 0..SLIDER_MAX :
          /\ IF type = "rain"
               THEN weather["sun"] = 0 /\ weather["wind"] = 0
               ELSE weather["rain"] = 0
          /\ handleWeatherChange(type, value)
    /\ Note("setWeather")
    /\ Hist(NoItemId, "")
    /\ UNCHANGED failedCommits

TypeIndex(type) == CHOOSE i \in 1..3 : TypeOrder[i] = type

\* the slider that gives the items of a type their weight
WeatherOf(type) == IF type = "solar" THEN "sun" ELSE IF type = "wind" THEN "wind" ELSE "rain"

\* the first available item of each type whose slider is above 0 and that is
\* not to the left of the type placed last: the player works through the types
\* in the order of the tiles and leaves out the types that give no energy
CalcPickable ==
    {availableItems[i].id : i \in {j \in 1..Len(availableItems) :
        /\ weather[WeatherOf(availableItems[j].type)] > 0
        /\ \A k \in 1..(j - 1) : availableItems[k].type # availableItems[j].type
        /\ \A k \in 1..Len(placedItems) :
              TypeIndex(placedItems[k].type) <= TypeIndex(availableItems[j].type)}}

\* a click on an available item
CalcAdd ==
    /\ PlayingScreen
    /\ ~hasChecked
    /\ Len(placedItems) < MaxCalcPlaced
    /\ \E id \in CalcPickable : handleAddItem(id) /\ Hist(id, "click")
    /\ Note("toGrid")
    /\ UNCHANGED failedCommits

\* the one commit of the run
CalcCommit ==
    /\ PlayingScreen
    /\ CheckButtonEnabled
    /\ ~hasChecked
    /\ handleCheckEnergyDouble
    /\ Note("commit")
    /\ Hist(NoItemId, "")
    /\ failedCommits' = (IF currentIsInRangeDouble THEN failedCommits ELSE failedCommits + 1)

CalcNext ==
    \/ CalcStart
    \/ CalcSetWeather
    \/ CalcAdd
    \/ CalcCommit

SpecCalc == CalcInit /\ [][CalcNext]_vars

(***************************************************************************)
(* The static variants played by type: the player places an item of a     *)
(* type, working through the types in the order of the tiles, and may take *)
(* an item back directly after placing it, so that every number of items   *)
(* per type is placed in some state.                                       *)
(***************************************************************************)
TypesInit ==
    /\ \E v \in {"count", "static"} : Constructed(v)
    /\ lastEvent = "mount"
    /\ prev = [gameStatus |-> "intro", attemptsLeft |-> attemptsLeft]
    /\ failedCommits = 0
    /\ hist = [arg |-> NoItemId, target |-> "", hasChecked |-> FALSE]
    /\ twin = NoTwin
    /\ inputs = NoInputs

\* no placed item has a type to the right of the given type
InTileOrder(type) ==
    \A k \in 1..Len(placedItems) : TypeIndex(placedItems[k].type) <= TypeIndex(type)

\* "count": the source tiles in stock, in the order of the tiles
TypesPickableTypes == {t \in EnergyTypes : AvailableCount(t) > 0 /\ InTileOrder(t)}

\* "static": the last available item of each type, in the order of the tiles;
\* an item that was taken back is the last of its type
TypesPickable ==
    {availableItems[i].id : i \in {j \in 1..Len(availableItems) :
        /\ \A k \in (j + 1)..Len(availableItems) :
              availableItems[k].type # availableItems[j].type
        /\ InTileOrder(availableItems[j].type)}}

TypesStart == Start

TypesCommit == Commit

TypesReplay == Replay

\* a drop on the power grid
TypesAdd ==
    /\ PlayingScreen
    /\ CASE variant = "count" ->
              \E type \in TypesPickableTypes :
                  handleDropCount(type) /\ Hist(<<type, 0>>, "powerGrid")
         [] variant = "static" ->
              \E itemId \in TypesPickable :
                  handleDropStatic(itemId) /\ Hist(itemId, "powerGrid")
    /\ Note("toGrid")
    /\ UNCHANGED failedCommits

\* a click on the item that has just been placed
TypesRemove ==
    /\ PlayingScreen
    /\ lastEvent = "toGrid"
    /\ CASE variant = "count" ->
              \E id \in PickablePlacedCount :
                  handleRemoveItemCount(id) /\ Hist(id, "click")
         [] variant = "static" ->
              \E id \in PickablePlacedCount :
                  handleRemoveItemStatic(id) /\ Hist(id, "click")
    /\ Note("toAvailable")
    /\ UNCHANGED failedCommits

TypesNext ==
    \/ TypesStart
    \/ TypesCommit
    \/ TypesReplay
    \/ TypesAdd
    \/ TypesRemove

SpecTypes == TypesInit /\ [][TypesNext]_vars

(* The player who goes on to commit, in the two variants that keep the items by id: items are placed by type in the order of the tiles and taken back directly after they were placed, and the sun slider is pushed to either end at any time of the game. *)
FairInit ==
    /\ Init
    /\ variant \in {"static", "dynamic"}

FairStart == Start
FairCommit == Commit
FairReplay == Replay

\* a drop on the power grid; in "dynamic" a click on an available item
FairAdd ==
    /\ PlayingScreen
    /\ CASE variant = "static" ->
              \E itemId \in TypesPickable :
                  handleDropStatic(itemId) /\ Hist(itemId, "powerGrid")
         [] variant = "dynamic" ->
              \E itemId \in TypesPickable :
                  handleAddItem(itemId) /\ Hist(itemId, "click")
    /\ Note("toGrid")
    /\ UNCHANGED failedCommits

\* a click on the item that has just been placed
FairRemove ==
    /\ PlayingScreen
    /\ lastEvent = "toGrid"
    /\ \E id \in PickablePlacedCount :
          /\ CASE variant = "static"  -> handleRemoveItemStatic(id)
               [] variant = "dynamic" -> handleRemoveItemDynamic(id)
          /\ Hist(id, "click")
    /\ Note("toAvailable")
    /\ UNCHANGED failedCommits

\* the sun slider is pushed to one of its ends
FairSetWeather ==
    /\ PlayingScreen
    /\ variant = "dynamic"
    /\ \E value \in {0, SLIDER_MAX} : handleWeatherChange("sun", value)
    /\ Note("setWeather")
    /\ Hist(NoItemId, "")
    /\ UNCHANGED failedCommits

FairNext ==
    \/ FairStart
    \/ FairCommit
    \/ FairReplay
    \/ FairAdd
    \/ FairRemove
    \/ FairSetWeather

\* the first item is put on an empty power grid
PlaceOnEmptyGrid ==
    /\ placedItems = << >>
    /\ FairAdd
    /\ placedItems' # << >>

\* the commit button is pressed again and again while it can be, and an empty
\* power grid, on which the button is disabled, gets an item
SpecFair ==
    /\ FairInit
    /\ [][FairNext]_vars
    /\ SF_vars(FairCommit)
    /\ WF_vars(PlaceOnEmptyGrid)

(* The component of part_002 (static) and the component of part_000 mounted side by side: every action of the player goes to both, and each handles it if the element that carries the handler is on its screen. Items are chosen by type, in the order of the tiles, and an item is taken back directly after it was placed. *)
TwinInit ==
    /\ Constructed("static")
    /\ twin = MountedTwin
    /\ inputs = NoInputs
    /\ lastEvent = "mount"
    /\ prev = [gameStatus |-> "intro", attemptsLeft |-> attemptsLeft]
    /\ failedCommits = 0
    /\ hist = [arg |-> NoItemId, target |-> "", hasChecked |-> FALSE]

TwinNote(event) ==
    /\ lastEvent' = event
    /\ prev' = [gameStatus |-> gameStatus, attemptsLeft |-> attemptsLeft]
    /\ UNCHANGED <<variant, inputs>>

\* no handler of the first component runs
StaticIdle ==
    UNCHANGED <<gameStatus, attemptsLeft, hasChecked, placedItems, availableItems,
                CountVars, weather>>

HasOfType(items, type) == \E i \in 1..Len(items) : items[i].type = type

\* the id of the last item of the type
LastOfType(items, type) ==
    items[CHOOSE i \in 1..Len(items) :
              /\ items[i].type = type
              /\ \A k \in (i + 1)..Len(items) : items[k].type # type].id

\* the counter on the source tile of the type
TwinCount(c, type) ==
    IF type = "solar" THEN c.availableSolar
    ELSE IF type = "wind" THEN c.availableWind ELSE c.availableHydro

TwinStart ==
    /\ gameStatus = "intro" \/ twin.gameStatus = "intro"
    /\ IF gameStatus = "intro" THEN handleStartGameStatic ELSE StaticIdle
    /\ twin' = (IF twin.gameStatus = "intro" THEN handleStartGameTwin(twin) ELSE twin)
    /\ TwinNote("start")
    /\ Hist(NoItemId, "")
    /\ failedCommits' = 0

TwinCommit ==
    /\ \/ PlayingScreen /\ CheckButtonEnabled
       \/ twin.gameStatus = "playing" /\ Len(twin.placedItems) # 0
    /\ IF PlayingScreen /\ CheckButtonEnabled THEN handleCheckEnergyStatic ELSE StaticIdle
    /\ twin' = (IF twin.gameStatus = "playing" /\ Len(twin.placedItems) # 0
                THEN handleCheckEnergyTwin(twin) ELSE twin)
    /\ TwinNote("commit")
    /\ Hist(NoItemId, "")
    /\ failedCommits' = (IF currentIsInRange THEN failedCommits ELSE failedCommits + 1)

TwinReplay ==
    /\ gameStatus \in {"won", "lost"} \/ twin.gameStatus \in {"won", "lost"}
    /\ IF gameStatus \in {"won", "lost"} THEN handleReplayStatic ELSE StaticIdle
    /\ twin' = (IF twin.gameStatus \in {"won", "lost"} THEN handleReplayTwin(twin) ELSE twin)
    /\ TwinNote("replay")
    /\ Hist(NoItemId, "")
    /\ UNCHANGED failedCommits

\* an item of a type is dragged to the power grid
TwinAdd ==
    /\ PlayingScreen \/ twin.gameStatus = "playing"
    /\ \E type \in EnergyTypes :
          /\ InTileOrder(type)
          /\ HasOfType(availableItems, type) \/ TwinCount(twin, type) > 0
          /\ IF PlayingScreen /\ HasOfType(availableItems, type)
               THEN handleDropStatic(LastOfType(availableItems, type))
               ELSE StaticIdle
          /\ twin' = (IF twin.gameStatus = "playing" THEN handleDropTwin(twin, type) ELSE twin)
          /\ Hist(<<type, 0>>, "powerGrid")
    /\ TwinNote("toGrid")
    /\ UNCHANGED failedCommits

\* the item of a type that has just been placed is clicked
TwinRemove ==
    /\ PlayingScreen \/ twin.gameStatus = "playing"
    /\ lastEvent = "toGrid"
    /\ \E type \in EnergyTypes :
          /\ \/ placedItems # << >> /\ placedItems[Len(placedItems)].type = type
             \/ twin.placedItems # << >> /\ twin.placedItems[Len(twin.placedItems)].type = type
          /\ IF PlayingScreen /\ HasOfType(placedItems, type)
               THEN handleRemoveItemStatic(LastOfType(placedItems, type))
               ELSE StaticIdle
          /\ twin' = (IF twin.gameStatus = "playing" /\ HasOfType(twin.placedItems, type)
                      THEN handleRemoveItemTwin(twin, LastOfType(twin.placedItems, type))
                      ELSE twin)
          /\ Hist(<<type, 0>>, "click")
    /\ TwinNote("toAvailable")
    /\ UNCHANGED failedCommits

TwinNext ==
    \/ TwinStart
    \/ TwinCommit
    \/ TwinReplay
    \/ TwinAdd
    \/ TwinRemove

SpecTwin == TwinInit /\ [][TwinNext]_vars

(* The component of part_000 when two handlers of the playing screen run on the values of one render: both read the state cells as that render captured them, and React applies their setState calls in the order they were made, so a cell set by both keeps what the second set and a cell set by one keeps that. *)
BatchInit ==
    /\ Constructed("count")
    /\ lastEvent = "mount"
    /\ prev = [gameStatus |-> "intro", attemptsLeft |-> attemptsLeft]
    /\ failedCommits = 0
    /\ hist = [arg |-> NoItemId, target |-> "", hasChecked |-> FALSE]
    /\ twin = NoTwin
    /\ inputs = NoInputs

\* the state cells of the component as the current render captured them
Captured ==
    [gameStatus     |-> gameStatus,
     attemptsLeft   |-> attemptsLeft,
     availableSolar |-> availableSolar,
     availableWind  |-> availableWind,
     availableHydro |-> availableHydro,
     placedItems    |-> placedItems]

\* The cells after the setState calls of two handlers that ran on the same
\* captured values: first and second are what each handler alone would leave.
\* A drop or a removal that sets a cell sets it to a value other than the
\* captured one, so the cells the second handler set are those that differ.
SetStateInOrder(captured, first, second) ==
    [cell \in DOMAIN captured |->
        IF second[cell] # captured[cell] THEN second[cell] ELSE first[cell]]

\* the next render shows the cells
Rendered(c) ==
    /\ gameStatus' = c.gameStatus
    /\ attemptsLeft' = c.attemptsLeft
    /\ availableSolar' = c.availableSolar
    /\ availableWind' = c.availableWind
    /\ availableHydro' = c.availableHydro
    /\ placedItems' = c.placedItems
    /\ UNCHANGED <<hasChecked, availableItems, weather>>

\* every item is either in stock or placed
InStockOrPlaced ==
    \A t \in EnergyTypes :
        AvailableCount(t) + Cardinality({i \in 1..Len(placedItems) : placedItems[i].type = t}) = 5

BatchStart == Start
BatchCommit == Commit
BatchReplay == Replay

\* one drop, handled on its own render
BatchDrop ==
    /\ PlayingScreen
    /\ \E type \in TypesPickableTypes :
          handleDropCount(type) /\ Hist(<<type, 0>>, "powerGrid")
    /\ Note("toGrid")
    /\ UNCHANGED failedCommits

\* one click on the item placed last, handled on its own render
BatchRemove ==
    /\ PlayingScreen
    /\ lastEvent = "toGrid"
    /\ \E id \in PickablePlacedCount :
          handleRemoveItemCount(id) /\ Hist(id, "click")
    /\ Note("toAvailable")
    /\ UNCHANGED failedCommits

\* two drops of different types, both handled on the values of one render
BatchDropDrop ==
    /\ PlayingScreen
    /\ InStockOrPlaced
    /\ \E t1 \in TypesPickableTypes, t2 \in TypesPickableTypes :
          /\ t1 # t2
          /\ Rendered(SetStateInOrder(Captured, handleDropTwin(Captured, t1),
                                       handleDropTwin(Captured, t2)))
          /\ Hist(<<t2, 0>>, "powerGrid")
    /\ Note("dropDrop")
    /\ UNCHANGED failedCommits

\* a drop and a click on a placed item, both handled on the values of one render
BatchDropRemove ==
    /\ PlayingScreen
    /\ InStockOrPlaced
    /\ \E t1 \in TypesPickableTypes, id \in PickablePlacedCount :
          /\ Rendered(SetStateInOrder(Captured, handleDropTwin(Captured, t1),
                                       handleRemoveItemTwin(Captured, id)))
          /\ Hist(id, "click")
    /\ Note("dropRemove")
    /\ UNCHANGED failedCommits

BatchNext ==
    \/ BatchStart
    \/ BatchCommit
    \/ BatchReplay
    \/ BatchDrop
    \/ BatchRemove
    \/ BatchDropDrop
    \/ BatchDropRemove

SpecBatch == BatchInit /\ [][BatchNext]_vars

(***************************************************************************)
(* The slider component (src/components/PerceptronCity.tsx): three range   *)
(* inputs, no game. Its totalEnergy is a sum of products of doubles.       *)
(***************************************************************************)
\* <input type="range" min="0" max="10" step="0.5">: the positions 0..20
SLIDER_POSITIONS == 20

\* parseFloat(e.target.value) at position k: the double k / 2
parseFloat(k) == DoubleDiv(FromInt(k), 2)

\* useState(1.2), useState(0.8), useState(1.0): the doubles nearest to the literals
solarWeight == DoubleDiv(FromInt(12), 10)
windWeight == DoubleDiv(FromInt(8), 10)
hydroWeight == FromInt(1)

\* input * weight for the input at position k: the double nearest to
\* (k / 2) * weight, which is half the double nearest to k * weight
InputTimesWeight(k, weight) == DoubleDiv(DoubleMul(weight, k), 2)

\* solarInput * solarWeight + windInput * windWeight + hydroInput * hydroWeight
totalEnergySlider ==
    DoubleAdd(DoubleAdd(InputTimesWeight(inputs.solarInput, solarWeight),
                        InputTimesWeight(inputs.windInput, windWeight)),
              InputTimesWeight(inputs.hydroInput, hydroWeight))

SLIDER_THRESHOLD_MIN == 10
SLIDER_THRESHOLD_MAX == 20

\* mutant: the upper end of the range is left out
cityStateStrictMax ==
    LET total == totalEnergySlider IN
    IF ~BigLess(total, FromInt(SLIDER_THRESHOLD_MIN)) /\ BigLess(total, FromInt(SLIDER_THRESHOLD_MAX))
    THEN "powered"
    ELSE IF BigLess(FromInt(SLIDER_THRESHOLD_MAX), total) THEN "overload" ELSE "off"

\* let cityState = "off"; if (total >= MIN && total <= MAX) "powered";
\* else if (total > MAX) "overload"
cityState ==
    LET total == totalEnergySlider IN
    IF ~BigLess(total, FromInt(SLIDER_THRESHOLD_MIN)) /\ ~BigLess(FromInt(SLIDER_THRESHOLD_MAX), total)
    THEN "powered"
    ELSE IF BigLess(FromInt(SLIDER_THRESHOLD_MAX), total) THEN "overload" ELSE "off"

SliderInit ==
    /\ variant = "slider"
    /\ inputs = [solarInput |-> 10, windInput |-> 10, hydroInput |-> 10]
    /\ gameStatus = ""
    /\ attemptsLeft = 0
    /\ hasChecked = FALSE
    /\ placedItems = << >>
    /\ availableItems = << >>
    /\ availableSolar = 0
    /\ availableWind = 0
    /\ availableHydro = 0
    /\ weather = InitialWeather
    /\ lastEvent = "mount"
    /\ prev = [gameStatus |-> "", attemptsLeft |-> 0]
    /\ failedCommits = 0
    /\ hist = [arg |-> NoItemId, target |-> "", hasChecked |-> FALSE]
    /\ twin = NoTwin

\* nothing of a game component changes
SliderFrame(event) ==
    /\ lastEvent' = event
    /\ UNCHANGED <<variant, gameStatus, attemptsLeft, hasChecked, placedItems, availableItems,
                   CountVars, weather, prev, failedCommits, hist, twin>>

\* onChange={setSolarInput}
SetSolarInput ==
    /\ \E k \in 0..SLIDER_POSITIONS : inputs' = [inputs EXCEPT !.solarInput = k]
    /\ SliderFrame("setSolarInput")

\* onChange={setWindInput}
SetWindInput ==
    /\ \E k \in 0..SLIDER_POSITIONS : inputs' = [inputs EXCEPT !.windInput = k]
    /\ SliderFrame("setWindInput")

\* onChange={setHydroInput}
SetHydroInput ==
    /\ \E k \in 0..SLIDER_POSITIONS : inputs' = [inputs EXCEPT !.hydroInput = k]
    /\ SliderFrame("setHydroInput")

SliderNext ==
    \/ SetSolarInput
    \/ SetWindInput
    \/ SetHydroInput

SpecSlider == SliderInit /\ [][SliderNext]_vars

TypeOK ==
    /\ variant \in Variants
    /\ gameStatus \in GameStatuses
    /\ attemptsLeft \in Int
    /\ hasChecked \in BOOLEAN
    /\ weather \in [WeatherKeys -> 0..100]

(***************************************************************************)
(* Properties.                                                             *)
(***************************************************************************)
IdVariants == {"static", "dynamic"}

\* the total the mounted variant shows, and the range as the documentation gives it
Total == IF variant = "dynamic" THEN totalEnergyDynamic ELSE totalEnergyStatic
RangeMin == IF variant = "dynamic" THEN 100 * Scale ELSE 80
RangeMax == IF variant = "dynamic" THEN 150 * Scale ELSE 88
InsideRange == RangeMin <= Total /\ Total <= RangeMax

AllItemIds == {ItemId(t, i) : t \in EnergyTypes, i \in 0..4}

\* C1: in the item-identity variants availableItems and placedItems never share
\* an id, neither holds an id twice, and together they hold 15 items.
C1_ItemsPartition ==
    variant \in IdVariants =>
        /\ Ids(availableItems) \cap Ids(placedItems) = {}
        /\ Cardinality(Ids(availableItems)) = Len(availableItems)
        /\ Cardinality(Ids(placedItems)) = Len(placedItems)
        /\ Len(availableItems) + Len(placedItems) = 15

C1_Witness ==
    /\ variant \in IdVariants
    /\ lastEvent = "toAvailable"
    /\ Len(placedItems) >= 2
    /\ Len(availableItems) >= 2
    /\ availableItems # InitialItems(5)

C3_FailingCommit ==
    [][(lastEvent' = "commit" /\ ~InsideRange) =>
          /\ attemptsLeft' = attemptsLeft - 1
          /\ attemptsLeft' > 0 => gameStatus' = "playing"
          /\ attemptsLeft' = 0 => gameStatus' = "lost"
          /\ UNCHANGED <<placedItems, availableItems, CountVars>>]_vars

C3_Witness ==
    /\ lastEvent = "commit"
    /\ gameStatus = "lost"
    /\ prev = [gameStatus |-> "playing", attemptsLeft |-> 1]
    /\ attemptsLeft = 0
    /\ ~InsideRange

\* C4: a commit inside the range makes the phase won and leaves attemptsLeft as
\* it was, hence positive, also when it was the last attempt.
C4_WinningCommit ==
    [][(lastEvent' = "commit" /\ InsideRange) =>
          /\ gameStatus' = "won"
          /\ attemptsLeft' = attemptsLeft
          /\ attemptsLeft' > 0]_vars

C4_Witness ==
    /\ lastEvent = "commit"
    /\ gameStatus = "won"
    /\ prev = [gameStatus |-> "playing", attemptsLeft |-> 1]
    /\ attemptsLeft = 1

\* the configured number of attempts as the documentation gives it
ConfiguredAttempts == IF variant = "dynamic" THEN 3 ELSE 5

\* C5: in a game started with N attempts, after k failing commits attemptsLeft
\* is N - k; the phase is lost after the N-th failing commit and not before.
C5_AttemptsCountDown ==
    gameStatus # "intro" =>
        /\ attemptsLeft = ConfiguredAttempts - failedCommits
        /\ (gameStatus = "lost") <=> (failedCommits = ConfiguredAttempts)
        /\ failedCommits < ConfiguredAttempts => gameStatus \in {"playing", "won"}

C5_Witness ==
    /\ variant = "dynamic"
    /\ lastEvent = "commit"
    /\ failedCommits = 3
    /\ gameStatus = "lost"
    /\ attemptsLeft = 0
    /\ weather # InitialWeather

\* C6: no step increases attemptsLeft, except a replay or a start.
C6_AttemptsNeverIncrease ==
    [][attemptsLeft' > attemptsLeft => lastEvent' \in {"replay", "start"}]_vars

C6_Witness ==
    /\ lastEvent = "replay"
    /\ prev = [gameStatus |-> "lost", attemptsLeft |-> 0]
    /\ attemptsLeft = ConfiguredAttempts

\* C7: attemptsLeft changes only in a failing commit taken while playing, or in
\* a replay; moves, slider changes, start and a winning commit leave it alone.
C7_AttemptsFrame ==
    [][attemptsLeft' # attemptsLeft =>
          \/ lastEvent' = "replay"
          \/ lastEvent' = "commit" /\ gameStatus = "playing" /\ ~InsideRange]_vars

C7_Witness ==
    /\ lastEvent = "setWeather"
    /\ prev = [gameStatus |-> "playing", attemptsLeft |-> 1]
    /\ attemptsLeft = 1
    /\ weather # InitialWeather

\* C8: attemptsLeft stays within 0..configured max, and the phase is lost
\* exactly when attemptsLeft is 0.
C8_AttemptsRange ==
    /\ attemptsLeft \in 0..ConfiguredAttempts
    /\ (gameStatus = "lost") <=> (attemptsLeft = 0)

C8_Witness ==
    /\ variant = "count"
    /\ gameStatus = "lost"
    /\ attemptsLeft = 0
    /\ Len(placedItems) > 0

\* C9: the phase changes only by intro->playing (start), playing->won (commit
\* in range), playing->lost (failing commit that uses the last attempt),
\* won->intro and lost->intro (replay).
C9_PhaseTransitions ==
    [][gameStatus' # gameStatus =>
          \/ gameStatus = "intro" /\ gameStatus' = "playing" /\ lastEvent' = "start"
          \/ gameStatus = "playing" /\ gameStatus' = "won"
                /\ lastEvent' = "commit" /\ InsideRange
          \/ gameStatus = "playing" /\ gameStatus' = "lost"
                /\ lastEvent' = "commit" /\ ~InsideRange /\ attemptsLeft = 1
          \/ gameStatus \in {"won", "lost"} /\ gameStatus' = "intro"
                /\ lastEvent' = "replay"]_vars

C9_Witness ==
    /\ lastEvent = "replay"
    /\ prev.gameStatus = "won"
    /\ gameStatus = "intro"

\* C10: after a replay the state is the initial one: phase intro, attempts at
\* the configured max, nothing placed, all 15 items available (5 per
\* category), hasChecked false and the weather at 0.
C10_ReplayResets ==
    lastEvent = "replay" =>
        /\ gameStatus = "intro"
        /\ attemptsLeft = ConfiguredAttempts
        /\ placedItems = << >>
        /\ hasChecked = FALSE
        /\ weather = [sun |-> 0, wind |-> 0, rain |-> 0]
        /\ variant \in IdVariants =>
              /\ Ids(availableItems) = AllItemIds
              /\ Len(availableItems) = 15
        /\ variant = "count" =>
              availableSolar = 5 /\ availableWind = 5 /\ availableHydro = 5
        /\ Constructed(variant)

C10_Witness ==
    /\ variant = "dynamic"
    /\ lastEvent = "replay"
    /\ prev.gameStatus = "lost"

\* C11: directly after every start (intro to playing) attemptsLeft is the configured
\* maximum, nothing is placed and all 15 items are available, although the start
\* handler itself only sets the phase.
C11_StartIsFresh ==
    lastEvent = "start" =>
        /\ prev.gameStatus = "intro"
        /\ gameStatus = "playing"
        /\ attemptsLeft = ConfiguredAttempts
        /\ placedItems = << >>
        /\ IF variant = "count"
             THEN availableSolar = 5 /\ availableWind = 5 /\ availableHydro = 5
             ELSE Ids(availableItems) = AllItemIds /\ Len(availableItems) = 15

C11_Witness ==
    /\ lastEvent = "start"
    /\ gameStatus = "playing"
    /\ variant = "dynamic"
    /\ attemptsLeft = DYN_ATTEMPTS
    /\ Len(availableItems) = 15

MoveEvents == {"toGrid", "toAvailable"}

\* C12: a move (drop or click, either direction) that names an id held by neither
\* availableItems nor placedItems changes nothing: both collections, attemptsLeft,
\* the phase, hasChecked and the weather stay as they were.
C12_UnknownIdNoOp ==
    [][(/\ variant \in IdVariants
        /\ lastEvent' \in MoveEvents
        /\ hist'.arg \notin Ids(availableItems) \cup Ids(placedItems))
          => UNCHANGED <<availableItems, placedItems, attemptsLeft, gameStatus,
                         hasChecked, weather>>]_vars

C12_Witness ==
    /\ variant = "static"
    /\ lastEvent = "toAvailable"
    /\ hist.arg = NoItemId
    /\ hist.hasChecked
    /\ hasChecked
    /\ Len(placedItems) > 0

\* C13: in the dynamic variant a drop of an item on the container that already
\* holds it (a placed item on the power grid, an available item on the available
\* area) changes nothing at all: neither collection, nor attemptsLeft, the phase,
\* the weather, nor hasChecked.
C13_SameContainerDropNoOp ==
    [][(/\ variant = "dynamic"
        /\ lastEvent' \in MoveEvents
        /\ \/ hist'.target = "powerGrid" /\ hist'.arg \in Ids(placedItems)
           \/ hist'.target = "available" /\ hist'.arg \in Ids(availableItems))
          => UNCHANGED <<availableItems, placedItems, attemptsLeft, gameStatus,
                         hasChecked, weather>>]_vars

\* C14: in every reachable playing state and for every available item x, moving x
\* to the grid and then back to available gives the same ids in availableItems
\* and the same ids in placedItems as before; x ends up last in availableItems.
C14_RoundTrip ==
    (variant \in IdVariants /\ gameStatus = "playing") =>
        \A x \in Ids(availableItems) :
            LET toGrid == MoveItem(availableItems, placedItems, x)
                back   == MoveItem(toGrid.destination, toGrid.source, x)
            IN  /\ Some(availableItems, x)
                /\ Some(toGrid.destination, x)
                /\ ~Some(toGrid.source, x)
                /\ Ids(back.destination) = Ids(availableItems)
                /\ Ids(back.source) = Ids(placedItems)
                /\ back.source = placedItems
                /\ Len(back.destination) = Len(availableItems)
                /\ back.destination[Len(back.destination)].id = x

\* the first item has gone to the grid and come back: it is now last
C14_Witness ==
    /\ variant \in IdVariants
    /\ gameStatus = "playing"
    /\ lastEvent = "toAvailable"
    /\ placedItems = << >>
    /\ Ids(availableItems) = AllItemIds
    /\ availableItems[1].id # ItemId("solar", 0)
    /\ hist.arg = ItemId("solar", 0)
    /\ availableItems[15].id = ItemId("solar", 0)

\* C15: every move that really moves an item while the phase is playing, in either
\* direction, leaves hasChecked false and does not change attemptsLeft or the
\* phase; this includes the move made directly after a failing commit.
C15_MoveClearsVerdict ==
    [][(/\ lastEvent' \in MoveEvents
        /\ gameStatus = "playing"
        /\ placedItems' # placedItems)
          => /\ hasChecked' = FALSE
             /\ attemptsLeft' = attemptsLeft
             /\ gameStatus' = gameStatus]_vars

\* a placement directly after a failing commit
C15_Witness ==
    /\ variant = "static"
    /\ lastEvent = "toGrid"
    /\ hist.hasChecked
    /\ ~hasChecked
    /\ hist.arg \in Ids(placedItems)
    /\ gameStatus = "playing"
    /\ attemptsLeft = STATIC_ATTEMPTS - 1
    /\ failedCommits = 1

CommitEvents == {"commit", "commitDisabled"}

PlacedOfType(type) ==
    Cardinality({i \in 1..Len(placedItems) : placedItems[i].type = type})

\* C18: in every reachable state of the static variants the total is
\* 2 * (placed solar) + 6 * (placed wind) + 12 * (placed hydro): it is fixed by
\* how many items of each type are placed, whatever their order and their ids.
C18_StaticTotal ==
    variant \in {"count", "static"} =>
        totalEnergyStatic = 2 * PlacedOfType("solar") + 6 * PlacedOfType("wind")
                              + 12 * PlacedOfType("hydro")

\* a placement whose order is not the order of the source tiles
C18_Witness ==
    /\ variant = "static"
    /\ Len(placedItems) >= 4
    /\ PlacedOfType("solar") >= 1
    /\ PlacedOfType("wind") >= 1
    /\ PlacedOfType("hydro") >= 1
    /\ placedItems[1].type = "hydro"
    /\ totalEnergyStatic > 0

\* the types of the placed items, in the order of placement
PlacedTypes == [i \in 1..Len(placedItems) |-> placedItems[i].type]

\* C19: in the dynamic variant the weight of an item is, for every slider value v
\* of its category, the double v / 5, which is not negative; with the sun slider
\* at 50 the solar weight is 10, and three placed solar items and nothing else
\* give the total 30.
C19_WeightIsFifth ==
    variant = "dynamic" =>
        LET weights == getDynamicWeightsDouble IN
        /\ \A type \in EnergyTypes :
              /\ weights[type] = DoubleDiv(FromInt(weather[WeatherOf(type)]), 5)
              /\ ~BigLess(weights[type], FromInt(0))
        /\ weather["sun"] = 50 => weights["solar"] = FromInt(10)
        /\ (weather["sun"] = 50 /\ PlacedTypes = <<"solar", "solar", "solar">>)
              => totalEnergyDouble = FromInt(30)

C19_Witness ==
    /\ variant = "dynamic"
    /\ weather["sun"] = 50
    /\ weather["wind"] = 7
    /\ PlacedTypes = <<"solar", "solar", "solar">>
    /\ totalEnergyDouble = FromInt(30)
    /\ lastEvent = "toGrid"

\* the sum of the unrounded weights slider / 5 of the placed items in exact
\* arithmetic, in 1/Scale units: totalEnergyDynamic, whose weights are exact
ExactTotal == Reduce(placedItems, [solar |-> RawWeight("sun"), wind |-> RawWeight("wind"),
                                   hydro |-> RawWeight("rain")])

\* C20: in the dynamic variant, for every integer slider setting and every
\* placement, the total that decides the commit is the sum of the unrounded
\* weights slider / 5 of the placed items, and the verdict is the verdict of that
\* sum: rounding the weights to 2 decimals changes neither.
C20_RoundingHarmless ==
    variant = "dynamic" =>
        /\ totalEnergyDouble = DoubleDiv(FromInt(ExactTotal \div 200), 5)
        /\ currentIsInRangeDouble <=>
              (DYN_THRESHOLD_MIN * Scale <= ExactTotal /\ ExactTotal <= DYN_THRESHOLD_MAX * Scale)

StaticVariants == {"count", "static"}

\* C21: in the static variants no reachable total exceeds 100, the total of all
\* 15 items; a game is won only with a total in [80, 88], and the phase won is
\* reachable, so some placement within the 5 items per type has such a total.
C21_StaticTotalCoversRange ==
    variant \in StaticVariants =>
        /\ totalEnergyStatic <= 100
        /\ Len(placedItems) = 15 => totalEnergyStatic = 100
        /\ gameStatus = "won" => (80 <= totalEnergyStatic /\ totalEnergyStatic <= 88)

C21_Witness ==
    /\ variant \in StaticVariants
    /\ gameStatus = "won"
    /\ lastEvent = "commit"
    /\ totalEnergyStatic >= 80
    /\ totalEnergyStatic <= 88
    /\ \A t \in EnergyTypes : PlacedOfType(t) <= 5

TwoSolarTwoWind ==
    /\ PlacedOfType("solar") = 2
    /\ PlacedOfType("wind") = 2
    /\ PlacedOfType("hydro") = 0

AvailableCountNext(type) ==
    IF type = "solar" THEN availableSolar'
    ELSE IF type = "wind" THEN availableWind' ELSE availableHydro'

C28_CheckedMeansOutside ==
    variant \in IdVariants =>
        /\ (gameStatus = "playing" /\ hasChecked) => ~InsideRange
        /\ gameStatus = "playing" => ~isInRange
        /\ isInRange => gameStatus = "won"

\* the verdict of a failed commit on the screen, with the total above the range
C28_Witness ==
    /\ variant = "dynamic"
    /\ gameStatus = "playing"
    /\ hasChecked
    /\ lastEvent = "commit"
    /\ Total > RangeMax
    /\ ~isInRange

CalmWeather == \A k \in WeatherKeys : weather[k] = 0

\* C29: in the dynamic variant, while all three intensities are 0 the total is 0
\* whatever is placed, so a commit fails: it takes an attempt and never wins.
\* Every game starts with the three intensities at 0, so a game is won only
\* after a slider was set above 0 since its start.
C29_CalmWeatherNeverWins ==
    variant = "dynamic" =>
        /\ CalmWeather =>
              /\ totalEnergyDynamic = 0
              /\ ~currentIsInRangeDynamic
              /\ gameStatus # "won"
              /\ lastEvent = "commit" =>
                    (attemptsLeft = prev.attemptsLeft - 1 /\ gameStatus \in {"playing", "lost"})
        /\ gameStatus = "intro" => CalmWeather
        /\ gameStatus = "won" => ~CalmWeather

\* a failed commit of a full power grid in calm weather
C29_Witness ==
    /\ variant = "dynamic"
    /\ CalmWeather
    /\ lastEvent = "commit"
    /\ Len(placedItems) = 15
    /\ attemptsLeft = prev.attemptsLeft - 1
    /\ gameStatus = "playing"

Decided == gameStatus \in {"won", "lost"}

OfType(items, type) == Cardinality({i \in 1..Len(items) : items[i].type = type})

\* C30: the count variant and the static id variant, mounted side by side and
\* given the same starts, placements and removals by type, commits and replays,
\* agree after every step on the phase, on attemptsLeft, on the number of
\* available and of placed items of each type, and on the total.
C30_TwinsAgree ==
    twin # NoTwin =>
        /\ twin.gameStatus = gameStatus
        /\ twin.attemptsLeft = attemptsLeft
        /\ \A t \in EnergyTypes :
              /\ TwinCount(twin, t) = OfType(availableItems, t)
              /\ OfType(twin.placedItems, t) = OfType(placedItems, t)
        /\ totalEnergyTwin(twin) = totalEnergyStatic

\* both components have lost a second game with items of every type placed
C30_Witness ==
    /\ twin # NoTwin
    /\ lastEvent = "commit"
    /\ twin.gameStatus = "lost"
    /\ gameStatus = "lost"
    /\ \A t \in EnergyTypes : OfType(twin.placedItems, t) > 0 /\ OfType(placedItems, t) > 0
    /\ twin.availableSolar = 0

\* In the count variant each handler of the component taken as a value gives
\* the state the handler of the mounted component leaves.
TwinHere ==
    [gameStatus     |-> gameStatus,
     attemptsLeft   |-> attemptsLeft,
     availableSolar |-> availableSolar,
     availableWind  |-> availableWind,
     availableHydro |-> availableHydro,
     placedItems    |-> placedItems]

TwinFaithful ==
    [][variant = "count" =>
        /\ lastEvent' = "start" => TwinHere' = handleStartGameTwin(TwinHere)
        /\ lastEvent' = "commit" => TwinHere' = handleCheckEnergyTwin(TwinHere)
        /\ lastEvent' = "replay" => TwinHere' = handleReplayTwin(TwinHere)
        /\ lastEvent' = "toGrid" => TwinHere' = handleDropTwin(TwinHere, hist'.arg[1])
        /\ lastEvent' = "toAvailable" => TwinHere' = handleRemoveItemTwin(TwinHere, hist'.arg)]_vars

\* C23: two actions handled back to back both take full effect, and no state
\* is reachable in which an item is counted out of the available items without
\* being placed, or placed without being counted out, also when the second
\* handler runs on the values captured by the same render as the first.
C23_ActionsAtomic ==
    variant = "count" =>
        \A t \in EnergyTypes : AvailableCount(t) + PlacedOfType(t) = 5

C32_TotalBounded ==
    /\ \A t \in EnergyTypes : PlacedOfType(t) <= NUM_ITEMS_PER_TYPE
    /\ PlacedOfType("hydro") # 7
    /\ Total >= 0
    /\ variant \in StaticVariants => Total <= 100
    /\ variant = "dynamic" => Total <= 300 * Scale

\* the dynamic variant with every item placed and every slider at its end
C32_Witness ==
    /\ variant = "dynamic"
    /\ \A t \in EnergyTypes : PlacedOfType(t) = 5
    /\ Total = 300 * Scale
    /\ availableItems = << >>

\* the items of the list other than the one with the id, in their order
Others(items, id) == SelectSeq(items, LAMBDA i : i.id # id)

\* C33: a successful move puts the moved item at the end of the destination
\* and takes it out of the source, and all other items of both lists keep their
\* order; so placedItems lists the items in the order they were placed, and an
\* item moved to the grid and back is the last of availableItems.
C33_MoveAppends ==
    [][(variant \in IdVariants) =>
          /\ (lastEvent' = "toGrid" /\ Some(availableItems, hist'.arg)) =>
                (/\ placedItems' = Append(placedItems, Find(availableItems, hist'.arg))
                 /\ availableItems' = Others(availableItems, hist'.arg)
                 /\ Len(availableItems') = Len(availableItems) - 1)
          /\ (lastEvent' = "toAvailable" /\ Some(placedItems, hist'.arg)) =>
                (/\ availableItems' = Append(availableItems, Find(placedItems, hist'.arg))
                 /\ placedItems' = Others(placedItems, hist'.arg)
                 /\ Len(placedItems') = Len(placedItems) - 1)
      ]_vars

\* the fourth item has just been placed behind the three placed before it
C33_Witness ==
    /\ variant = "dynamic"
    /\ lastEvent = "toGrid"
    /\ Len(placedItems) = 4
    /\ placedItems[4].id = hist.arg
    /\ ~Some(availableItems, hist.arg)
    /\ Len(availableItems) = 11

\* 20 times the total 1.2 * solar + 0.8 * wind + 1.0 * hydro of the inputs, which
\* are positions of 0.5: an integer
TwentyTimesTotal == 12 * inputs.solarInput + 8 * inputs.windInput + 10 * inputs.hydroInput

\* C31: in the slider component, for every combination of the three inputs
\* the city state is off when the total 1.2 * solar + 0.8 * wind + 1.0 * hydro is
\* below 10, powered when it is from 10 to 20 (both ends included), overload when
\* it is above 20; the inputs 5, 5, 5 of the mount give the total 15 and powered;
\* a change of one input leaves the other two as they are.
C31_CityState ==
    /\ [](variant = "slider" =>
            /\ cityState \in {"off", "powered", "overload"}
            /\ cityState = "off" <=> TwentyTimesTotal < 200
            /\ cityState = "powered" <=> (200 <= TwentyTimesTotal /\ TwentyTimesTotal <= 400)
            /\ cityState = "overload" <=> TwentyTimesTotal > 400
            /\ lastEvent = "mount" =>
                  /\ inputs = [solarInput |-> 10, windInput |-> 10, hydroInput |-> 10]
                  /\ totalEnergySlider = FromInt(15)
                  /\ cityState = "powered")
    /\ [][(variant = "slider") =>
            /\ lastEvent' = "setSolarInput" =>
                  (inputs'.windInput = inputs.windInput /\ inputs'.hydroInput = inputs.hydroInput)
            /\ lastEvent' = "setWindInput" =>
                  (inputs'.solarInput = inputs.solarInput /\ inputs'.hydroInput = inputs.hydroInput)
            /\ lastEvent' = "setHydroInput" =>
                  (inputs'.solarInput = inputs.solarInput /\ inputs'.windInput = inputs.windInput)
      ]_vars

\* the city is powered at a total of exactly 20 that no single input gives
C31_Witness ==
    /\ variant = "slider"
    /\ lastEvent = "setWindInput"
    /\ TwentyTimesTotal = 400
    /\ inputs.solarInput = 9
    /\ inputs.windInput > 0
    /\ inputs.hydroInput > 0
    /\ cityState = "powered"

====
